---------------------------- MODULE Spec2Model ----------------------------
(***************************************************************************)
(* BookListBuilder (script.py): enrichment of a list of Book records by    *)
(* two lookups per record (update_book_info against the catalog,           *)
(* update_library_status against the school-library service) on a          *)
(* ThreadPoolExecutor, followed by the layout of the records into the      *)
(* sheets of a workbook (create).                                          *)
(*                                                                         *)
(* A lookup task takes two steps, split at its network request: it starts  *)
(* (reads the record, builds the request, sends it) and later receives the *)
(* response and finishes.  The steps of different tasks interleave freely. *)
(***************************************************************************)
EXTENDS Integers, Sequences, FiniteSets

(***************************************************************************)
(* Bounds of the model.                                                    *)
(***************************************************************************)
\* Number of input rows (records) of a run.
NumBooks == 2

(***************************************************************************)
(* Python values.  A value is None, an int or a str; a JSON object is a    *)
(* function from its keys to values (a missing key is not in its DOMAIN).  *)
(***************************************************************************)
None == [t |-> "none", n |-> 0, s |-> ""]

I(n) == [t |-> "int", n |-> n, s |-> ""]

S(s) == [t |-> "str", n |-> 0, s |-> s]

\* bool(v): None, 0 and '' are false.
Truthy(v) == (v.t = "int" /\ v.n # 0) \/ (v.t = "str" /\ v.s # "")

\* The JSON object {}.
EmptyDict == [k \in {} |-> None]

\* dict.get(k, default)
Get(d, k, default) == IF k \in DOMAIN d THEN d[k] ELSE default

\* The strings int() and float() accept, with their values.
NumericStrings == {"12000"}

StrValue(s) == IF s = "12000" THEN 12000 ELSE 0

\* int(v): ok and the number, or the exception it raises.
ToInt(v) ==
    CASE v.t = "int" -> [exc |-> "", n |-> v.n]
      [] v.t = "str" /\ v.s \in NumericStrings -> [exc |-> "", n |-> StrValue(v.s)]
      [] v.t = "str" -> [exc |-> "ValueError", n |-> 0]
      [] OTHER -> [exc |-> "TypeError", n |-> 0]

\* float(v): the score in tenths (8 becomes 8.0, that is 80 tenths).
ToFloat(v) ==
    CASE v.t = "int" -> [exc |-> "", n |-> 10 * v.n]
      [] v.t = "str" /\ v.s \in NumericStrings -> [exc |-> "", n |-> 10 * StrValue(v.s)]
      [] v.t = "str" -> [exc |-> "ValueError", n |-> 0]
      [] OTHER -> [exc |-> "TypeError", n |-> 0]

\* str.strip() of a value: only a str has the method.  The model's strings
\* carry no surrounding blanks.
Strip(v) ==
    IF v.t = "str" THEN [exc |-> "", s |-> v.s] ELSE [exc |-> "AttributeError", s |-> ""]

\* issubclass(e, h) for the exception classes of the two lookups.
IsSubclass(e, h) ==
    \/ e = h
    \/ h = "Exception"
    \/ h = "RequestException" /\ e \in {"HTTPError", "ConnectionError"}
    \/ h = "ValueError" /\ e = "JSONDecodeError"

\* Whether a try statement with these except clauses catches e.
Catches(handlers, e) == \E k \in 1..Len(handlers) : IsSubclass(e, handlers[k])

(***************************************************************************)
(* LibraryBookStatus and Book.                                             *)
(***************************************************************************)
LibraryBookStatus == {"EXISTS", "NOT_EXISTS", "UNKNOWN"}

\* Book(item_id=..., isbn13=..., sheet_name=..., memo=..., order=...): the
\* other fields take the dataclass defaults.
Book(item_id, isbn13, sheet_name, memo, order) ==
    [ item_id |-> item_id, order |-> order, key |-> None, species_key |-> None,
      title |-> S(""), cover |-> "None", author |-> S(""), publisher |-> S(""),
      isbn13 |-> isbn13, standard_price |-> 0, publish_date |-> S(""),
      description |-> "", rating_score |-> 0, rating_count |-> 0,
      sales_point |-> I(0), category |-> S(""), sheet_name |-> sheet_name,
      library_status |-> "UNKNOWN", memo |-> memo ]

(***************************************************************************)
(* Input rows.  A row's identifier cell is a bare ISBN or a URL with an    *)
(* ItemId query parameter; rows the script exits on are no input here.     *)
(* The rows with an ISBN go to sheet "A", those with a URL to sheet "B".   *)
(***************************************************************************)

InputIsbn == "9791190123456"

\* The identifier cells: a bare ISBN, or a URL with ItemId=12345.
RawCells == { [http |-> FALSE, isbn |-> InputIsbn, ItemId |-> 0],
              [http |-> TRUE, isbn |-> "", ItemId |-> 12345] }

Rows == { [raw |-> c, sheet |-> IF c.http THEN "B" ELSE "A"] : c \in RawCells }

\* The Book the main block appends for row row_idx.
ParseRow(row, row_idx) ==
    IF row.raw.http
    THEN Book(I(row.raw.ItemId), S(""), row.sheet, "", row_idx)
    ELSE Book(None, S(row.raw.isbn), row.sheet, "", row_idx)


(***************************************************************************)
(* Catalog responses.  A response either fails with an exception (the      *)
(* request, the HTTP status, the JSON decoding, a body that is no object)  *)
(* or carries a list of items.  An item is its JSON object f and the       *)
(* object under subInfo.ratingInfo; cover_exc is the outcome of the second *)
(* request, the one for the cover image.                                   *)
(***************************************************************************)
OtherIsbn == "9788990123459"

\* Every field present; the ISBN-13 is the one of the input cell.
FullItem ==
    [ f |-> [ title |-> S("T"), itemId |-> I(777), author |-> S("Au"),
              publisher |-> S("P"), isbn13 |-> S(InputIsbn),
              priceStandard |-> I(12000), pubDate |-> S("2019-03-01"),
              description |-> S("D"), salesPoint |-> I(350),
              categoryName |-> S("C"), cover |-> S("http://cover") ],
      ratingInfo |-> [ ratingScore |-> I(8), ratingCount |-> I(120) ] ]

\* The catalog knows the book under another ISBN-13 than the cell's text;
\* the price is a numeric string and there is no cover.
OtherItem ==
    [ f |-> [ title |-> S("T2"), itemId |-> I(778), author |-> S("Au"),
              publisher |-> S("P"), isbn13 |-> S(OtherIsbn),
              priceStandard |-> S("12000"), pubDate |-> S("2022-01-01"),
              description |-> S("D"), salesPoint |-> I(10),
              categoryName |-> S("C") ],
      ratingInfo |-> [ ratingScore |-> I(8), ratingCount |-> I(120) ] ]

\* No itemId, no isbn13, no subInfo, no cover.
NoIdsItem ==
    [ f |-> [ title |-> S("T3"), author |-> S("Au"), publisher |-> S("P"),
              priceStandard |-> I(9000), pubDate |-> S("2024-05-05"),
              description |-> S("D"), salesPoint |-> I(1),
              categoryName |-> S("C") ],
      ratingInfo |-> EmptyDict ]

\* priceStandard is no number.
BadPriceItem ==
    [ f |-> [ title |-> S("T4"), itemId |-> I(779), author |-> S("Au"),
              publisher |-> S("P"), isbn13 |-> S(InputIsbn),
              priceStandard |-> S("N/A"), pubDate |-> S("2020-02-02"),
              description |-> S("D"), salesPoint |-> I(5),
              categoryName |-> S("C") ],
      ratingInfo |-> [ ratingScore |-> I(6), ratingCount |-> I(3) ] ]

\* ratingScore is no number.
BadRatingItem ==
    [ f |-> [ title |-> S("T5"), itemId |-> I(780), author |-> S("Au"),
              publisher |-> S("P"), isbn13 |-> S(InputIsbn),
              priceStandard |-> I(7000), pubDate |-> S("2021-01-01"),
              description |-> S("D"), salesPoint |-> I(5),
              categoryName |-> S("C") ],
      ratingInfo |-> [ ratingScore |-> S("N/A"), ratingCount |-> I(3) ] ]

CatalogItems == {FullItem, OtherItem, NoIdsItem, BadPriceItem, BadRatingItem}

\* The local variable item before items[0] is read.
NoItem == [ f |-> EmptyDict, ratingInfo |-> EmptyDict ]

CatalogResponses ==
    [exc : {"ConnectionError", "HTTPError", "JSONDecodeError", "AttributeError"},
     items : {<<>>}, cover_exc : {""}]
    \cup [exc : {""}, items : {<<>>}, cover_exc : {""}]
    \cup { r \in [exc : {""}, items : {<<it>> : it \in CatalogItems},
                  cover_exc : {"", "ConnectionError"}] :
             r.cover_exc # "" => "cover" \in DOMAIN r.items[1].f }

(***************************************************************************)
(* update_book_info                                                        *)
(***************************************************************************)
\* The request URL: by item id when the record has one, else by ISBN.
InfoUrl(book) ==
    IF Truthy(book.item_id)
    THEN [itemIdType |-> "ItemId", ItemId |-> book.item_id]
    ELSE [itemIdType |-> "ISBN", ItemId |-> book.isbn13]

\* The except clauses of update_book_info, in order.
InfoHandlers == <<"RequestException", "JSONDecodeError", "Exception">>

\* The cover request of a successful lookup.
InfoCover(book, item, resp) ==
    IF Truthy(Get(item.f, "cover", None))
    THEN [book EXCEPT !.cover = IF resp.cover_exc = "" THEN "bytes" ELSE "None"]
    ELSE book

\* The assignments book.title .. book.category, in the order of the code;
\* int(priceStandard) is evaluated after the first five have been made.
InfoAssign(book, item, desc, score, count) ==
    LET b1 == [book EXCEPT !.title = Get(item.f, "title", S("")),
                           !.item_id = Get(item.f, "itemId", S("")),
                           !.author = Get(item.f, "author", S("")),
                           !.publisher = Get(item.f, "publisher", S("")),
                           !.isbn13 = Get(item.f, "isbn13", S(""))]
        price == ToInt(Get(item.f, "priceStandard", I(0)))
    IN  IF price.exc # ""
        THEN [book |-> b1, exc |-> price.exc]
        ELSE [book |-> [b1 EXCEPT !.standard_price = price.n,
                                  !.publish_date = Get(item.f, "pubDate", S("")),
                                  !.description = desc,
                                  !.rating_score = score,
                                  !.rating_count = count,
                                  !.sales_point = Get(item.f, "salesPoint", I(0)),
                                  !.category = Get(item.f, "categoryName", S(""))],
              exc |-> ""]

\* The try block: the record it leaves, the exception it ends with ("" when
\* it returns) and the item it read.
InfoTry(book, resp) ==
    IF resp.exc # "" THEN [book |-> book, exc |-> resp.exc, item |-> NoItem]
    ELSE IF resp.items = <<>> THEN [book |-> book, exc |-> "", item |-> NoItem]
    ELSE LET item == resp.items[1]
             desc == Strip(Get(item.f, "description", S("")))
             score == ToFloat(Get(item.ratingInfo, "ratingScore", I(0)))
             count == ToInt(Get(item.ratingInfo, "ratingCount", I(0)))
         IN  IF desc.exc # "" THEN [book |-> book, exc |-> desc.exc, item |-> item]
             ELSE IF score.exc # "" THEN [book |-> book, exc |-> score.exc, item |-> item]
             ELSE IF count.exc # "" THEN [book |-> book, exc |-> count.exc, item |-> item]
             ELSE LET a == InfoAssign(book, item, desc.s, score.n, count.n)
                  IN  IF a.exc # "" THEN [book |-> a.book, exc |-> a.exc, item |-> item]
                      ELSE [book |-> InfoCover(a.book, item, resp), exc |-> "", item |-> item]

\* update_book_info on a response: the record, the item read, and whether an
\* exception left the function.
update_book_info(book, resp) ==
    LET r == InfoTry(book, resp)
    IN  [book |-> r.book, item |-> r.item,
         raised |-> r.exc # "" /\ ~Catches(InfoHandlers, r.exc)]

(***************************************************************************)
(* Ownership responses: an exception, or the bookList of the result.       *)
(***************************************************************************)
Entry(isbn, bookKey, speciesKey) ==
    [isbn |-> S(isbn), bookKey |-> bookKey, speciesKey |-> speciesKey]

BookLists ==
    { <<>>,
      << [isbn |-> S(OtherIsbn), bookKey |-> I(8)], Entry(InputIsbn, I(5), I(6)) >>,
      << Entry(InputIsbn, I(0), I(6)) >> }

LibraryResponses ==
    [exc : {"HTTPError", "ConnectionError", "ValueError"}, bookList : {<<>>}]
    \cup [exc : {""}, bookList : BookLists]

(***************************************************************************)
(* update_library_status                                                   *)
(***************************************************************************)
\* The request body built from the record.
LibPayload(book) == [searchKeyword |-> book.isbn13, coverYn |-> "N"]

\* Faulty variant: the last clause, except Exception, is missing.
LibHandlersWithoutCatchAll == <<"HTTPError", "RequestException">>

\* The except clauses of update_library_status, in order.
LibHandlers == <<"HTTPError", "RequestException", "Exception">>

\* for item in results: the first k >= from with item.get("isbn") ==
\* book.isbn13, or 0 when the loop ends without one.
RECURSIVE FirstMatch(_, _, _)
FirstMatch(results, isbn13, from) ==
    IF from > Len(results) THEN 0
    ELSE IF Get(results[from], "isbn", None) = isbn13 THEN from
    ELSE FirstMatch(results, isbn13, from + 1)

\* The try block: the record it leaves and the exception it ends with.
LibTry(book, resp) ==
    IF resp.exc # "" THEN [book |-> book, exc |-> resp.exc]
    ELSE LET k == FirstMatch(resp.bookList, book.isbn13, 1)
         IN  IF k # 0
             THEN [book |-> [book EXCEPT !.library_status = "EXISTS",
                                         !.key = Get(resp.bookList[k], "bookKey", None),
                                         !.species_key = Get(resp.bookList[k], "speciesKey", None)],
                   exc |-> ""]
             ELSE [book |-> [book EXCEPT !.library_status = "NOT_EXISTS"], exc |-> ""]

\* update_library_status on a response: every except clause sets UNKNOWN.
update_library_status(book, resp) ==
    LET r == LibTry(book, resp)
    IN  IF r.exc = "" THEN [book |-> r.book, raised |-> FALSE]
        ELSE IF Catches(LibHandlers, r.exc)
        THEN [book |-> [r.book EXCEPT !.library_status = "UNKNOWN"], raised |-> FALSE]
        ELSE [book |-> r.book, raised |-> TRUE]

(***************************************************************************)
(* The layout step of create.                                              *)
(***************************************************************************)
\* string= of the ownership hyperlink (the source's label is the Korean
\* word for "link") and the text the highlight rule =$L2="..." compares to.
LinkLabel == "link"

\* The getter of column 11.
OwnershipText(book) ==
    IF book.library_status = "EXISTS" THEN "O"
    ELSE IF book.library_status = "NOT_EXISTS" THEN "X" ELSE "?"

\* The cell written at column 11 (idx == 11).
OwnershipCell(book) ==
    IF book.library_status = "EXISTS" /\ Truthy(book.key) /\ Truthy(book.species_key)
    THEN [kind |-> "url", string |-> LinkLabel,
          bookKey |-> book.key, speciesKey |-> book.species_key]
    ELSE [kind |-> "text", string |-> OwnershipText(book),
          bookKey |-> None, speciesKey |-> None]

\* The cell written at column 1 (idx == 1).
TitleCell(book) ==
    IF Truthy(book.item_id)
    THEN [kind |-> "url", string |-> book.title, ItemId |-> book.item_id]
    ELSE [kind |-> "text", string |-> book.title, ItemId |-> None]

\* The cells of one data row that the model keeps.
RowCells(book) ==
    [order |-> book.order, isbn13 |-> book.isbn13,
     title |-> TitleCell(book), ownership |-> OwnershipCell(book)]

\* Faulty variant: every record's sheet name is appended, seen before or not.
RECURSIVE SheetSequenceUnchecked(_, _, _)
SheetSequenceUnchecked(bks, from, acc) ==
    IF from > Len(bks) THEN acc
    ELSE SheetSequenceUnchecked(bks, from + 1, Append(acc, bks[from].sheet_name))

\* sheet_sequence: the sheet names of bks[from..], each appended unless it is
\* already in the list.
RECURSIVE SheetSequence(_, _, _)
SheetSequence(bks, from, acc) ==
    IF from > Len(bks) THEN acc
    ELSE LET name == bks[from].sheet_name
         IN  SheetSequence(bks, from + 1,
                 IF \E k \in 1..Len(acc) : acc[k] = name THEN acc ELSE Append(acc, name))

\* [book for book in books if book.sheet_name == sheet_name]
RECURSIVE GroupBooks(_, _, _)
GroupBooks(bks, sheet_name, from) ==
    IF from > Len(bks) THEN <<>>
    ELSE IF bks[from].sheet_name = sheet_name
    THEN <<bks[from]>> \o GroupBooks(bks, sheet_name, from + 1)
    ELSE GroupBooks(bks, sheet_name, from + 1)

\* Stable insertion of b into a list sorted by order.
RECURSIVE InsertByOrder(_, _)
InsertByOrder(sorted, b) ==
    IF sorted = <<>> THEN <<b>>
    ELSE IF b.order < Head(sorted).order THEN <<b>> \o sorted
    ELSE <<Head(sorted)>> \o InsertByOrder(Tail(sorted), b)

\* Faulty variant: sort(key=..., reverse=True), a descending sort.
RECURSIVE SortByOrderReversed(_)
SortByOrderReversed(group) ==
    IF group = <<>> THEN <<>>
    ELSE LET rest == SortByOrderReversed(Tail(group))
             before == SelectSeq(rest, LAMBDA b : b.order > Head(group).order)
             after == SelectSeq(rest, LAMBDA b : b.order <= Head(group).order)
         IN  before \o <<Head(group)>> \o after

\* group_books.sort(key=lambda x: x.order): a stable ascending sort.
RECURSIVE SortByOrder(_)
SortByOrder(group) ==
    IF group = <<>> THEN <<>>
    ELSE InsertByOrder(SortByOrder(SubSeq(group, 1, Len(group) - 1)), group[Len(group)])

\* One worksheet: its name and its data rows, first row first.
WriteSheet(bks, sheet_name) ==
    LET group_books == SortByOrder(GroupBooks(bks, sheet_name, 1))
    IN  [name |-> sheet_name,
         rows |-> [r \in 1..Len(group_books) |-> RowCells(group_books[r])]]

\* The worksheets of the workbook, in the order they are added.
LayoutSheets(bks) ==
    LET sheet_sequence == SheetSequence(bks, 1, <<>>)
    IN  [k \in 1..Len(sheet_sequence) |-> WriteSheet(bks, sheet_sequence[k])]

\* The conditional format =$L2="link": whether Excel highlights the row.
HighlightOwned(row) == row.ownership.string = LinkLabel

(***************************************************************************)
(* State.                                                                  *)
(***************************************************************************)
VARIABLES
    rows,       \* the input rows, as read from list.xlsx
    books,      \* the list books passed to create
    pc,         \* where the thread running create is
    idx,        \* the position of "for book in books" (1-based)
    futures,    \* the list futures of create
    queue,      \* the executor's work queue, submitted and not yet started
    info,       \* per record, the update_book_info task
    lib,        \* per record, the update_library_status task
    workbook    \* the worksheets added so far

vars == <<rows, books, pc, idx, futures, queue, info, lib, workbook>>

Records == 1..NumBooks

\* ThreadPoolExecutor(max_workers=5)
max_workers == 5

\* A task that was never submitted.
NoTask == [st |-> "none", request |-> None, raised |-> FALSE]

NoLibTask == [st |-> "none", searchKeyword |-> None, data |-> <<>>, failed |-> FALSE, raised |-> FALSE]

Init ==
    /\ rows \in [Records -> Rows]
    /\ books = [i \in Records |-> ParseRow(rows[i], i)]
    /\ pc = "loop"
    /\ idx = 1
    /\ futures = <<>>
    /\ queue = <<>>
    /\ info = [i \in Records |-> NoTask]
    /\ lib = [i \in Records |-> NoLibTask]
    /\ workbook = <<>>

\* Future.done()
Done(task) == task.st = "done"

\* The tasks some worker is running.
Running ==
    {<<"info", i>> : i \in {j \in Records : info[j].st = "running"}}
    \cup {<<"lib", i>> : i \in {j \in Records : lib[j].st = "running"}}

(***************************************************************************)
(* The thread running create.                                              *)
(***************************************************************************)
\* The test of the loop body: an item id and no ISBN-13 yet.
NeedsIsbn(book) == book.item_id # None /\ book.isbn13 = S("")

\* The loop reaches a record that needs its ISBN-13 first: it submits the
\* catalog lookup and waits for it.
SubmitInfoFirst ==
    /\ pc = "loop" /\ idx <= NumBooks
    /\ NeedsIsbn(books[idx])
    /\ info' = [info EXCEPT ![idx].st = "queued"]
    /\ queue' = Append(queue, <<"info", idx>>)
    /\ pc' = "wait_info"
    /\ UNCHANGED <<rows, books, idx, futures, lib, workbook>>

\* Faulty variant: the loop does not wait for info_future.
InfoWaitSkipped(i) == info[i].st # "none"

\* concurrent.futures.wait([info_future]) returns.
InfoWaitOver(i) == Done(info[i])

\* After the wait: the ownership lookup of the same record is submitted and
\* the loop goes on.
SubmitLibraryAfterInfo ==
    /\ pc = "wait_info"
    /\ InfoWaitOver(idx)
    /\ lib' = [lib EXCEPT ![idx].st = "queued"]
    /\ queue' = Append(queue, <<"lib", idx>>)
    /\ futures' = Append(futures, <<"lib", idx>>)
    /\ idx' = idx + 1
    /\ pc' = "loop"
    /\ UNCHANGED <<rows, books, info, workbook>>

\* The else branch: both lookups are submitted at once.
SubmitBoth ==
    /\ pc = "loop" /\ idx <= NumBooks
    /\ ~NeedsIsbn(books[idx])
    /\ info' = [info EXCEPT ![idx].st = "queued"]
    /\ lib' = [lib EXCEPT ![idx].st = "queued"]
    /\ queue' = queue \o << <<"info", idx>>, <<"lib", idx>> >>
    /\ futures' = futures \o << <<"info", idx>>, <<"lib", idx>> >>
    /\ idx' = idx + 1
    /\ UNCHANGED <<rows, books, pc, workbook>>

TaskOf(t) == IF t[1] = "info" THEN info[t[2]] ELSE lib[t[2]]

\* Faulty variant: wait(futures, return_when=FIRST_COMPLETED) on an executor
\* that is shut down without waiting.
BarrierFirstCompleted == \E k \in 1..Len(futures) : Done(TaskOf(futures[k]))

\* concurrent.futures.wait(futures) returns and the with block of the
\* executor is left (shutdown(wait=True)): every future of the list is done
\* and every submitted task has run.
BarrierOpen ==
    /\ \A k \in 1..Len(futures) : Done(TaskOf(futures[k]))
    /\ queue = <<>> /\ Running = {}

Barrier ==
    /\ pc = "loop" /\ idx > NumBooks
    /\ BarrierOpen
    /\ pc' = "layout"
    /\ UNCHANGED <<rows, books, idx, futures, queue, info, lib, workbook>>

\* The sheets are laid out and the workbook is closed.
Layout ==
    /\ pc = "layout"
    /\ workbook' = LayoutSheets(books)
    /\ pc' = "done"
    /\ UNCHANGED <<rows, books, idx, futures, queue, info, lib>>

(***************************************************************************)
(* The workers of the pool.                                                *)
(***************************************************************************)
\* A free worker takes the oldest submitted task and runs it up to its
\* request.
StartInfo(i) ==
    /\ queue # <<>> /\ Head(queue) = <<"info", i>>
    /\ Cardinality(Running) < max_workers
    /\ queue' = Tail(queue)
    /\ info' = [info EXCEPT ![i].st = "running", ![i].request = InfoUrl(books[i])]
    /\ UNCHANGED <<rows, books, pc, idx, futures, lib, workbook>>

StartLibrary(i) ==
    /\ queue # <<>> /\ Head(queue) = <<"lib", i>>
    /\ Cardinality(Running) < max_workers
    /\ queue' = Tail(queue)
    /\ lib' = [lib EXCEPT ![i].st = "running",
                          ![i].searchKeyword = LibPayload(books[i]).searchKeyword]
    /\ UNCHANGED <<rows, books, pc, idx, futures, info, workbook>>

\* The catalog answers (or the request fails): the rest of update_book_info.
FinishInfo(i) ==
    /\ info[i].st = "running"
    /\ \E resp \in CatalogResponses :
          LET r == update_book_info(books[i], resp)
          IN  /\ books' = [books EXCEPT ![i] = r.book]
              /\ info' = [info EXCEPT ![i].st = "done", ![i].raised = r.raised]
    /\ UNCHANGED <<rows, pc, idx, futures, queue, lib, workbook>>

\* The library service answers (or the request fails): the rest of
\* update_library_status.
FinishLibrary(i) ==
    /\ lib[i].st = "running"
    /\ \E resp \in LibraryResponses :
          LET r == update_library_status(books[i], resp)
          IN  /\ books' = [books EXCEPT ![i] = r.book]
              /\ lib' = [lib EXCEPT ![i].st = "done", ![i].data = resp.bookList,
                                    ![i].failed = (resp.exc # ""),
                                    ![i].raised = r.raised]
    /\ UNCHANGED <<rows, pc, idx, futures, queue, info, workbook>>

Next ==
    \/ SubmitInfoFirst
    \/ SubmitLibraryAfterInfo
    \/ SubmitBoth
    \/ Barrier
    \/ Layout
    \/ \E i \in Records : StartInfo(i)
    \/ \E i \in Records : StartLibrary(i)
    \/ \E i \in Records : FinishInfo(i)
    \/ \E i \in Records : FinishLibrary(i)

Spec == Init /\ [][Next]_vars

(***************************************************************************)
(* Properties.                                                             *)
(***************************************************************************)
\* The record as constructed from its input row, before any lookup.
Initial(i) == ParseRow(rows[i], i)

\* The lookups of record i that were submitted and have not finished.
Unresolved(i) ==
    {t \in {"info", "lib"} :
        (IF t = "info" THEN info[i].st ELSE lib[i].st) \in {"queued", "running"}}

\* C1: the layout never starts while a dispatched lookup is unresolved: once
\* create is past its barrier (laying out, or done with a workbook written),
\* every record's catalog and ownership lookup has been dispatched and has
\* completed, whatever its outcome.
BarrierBeforeLayout ==
    (pc \in {"layout", "done"} \/ workbook # <<>>) =>
        \A i \in Records : Unresolved(i) = {} /\ Done(info[i]) /\ Done(lib[i])

\* A run reaches the layout with a failed ownership lookup and a catalog
\* lookup that populated another record.
BarrierPassedWithMixedOutcomes ==
    /\ pc = "layout"
    /\ \E i, j \in Records :
          i # j /\ lib[i].failed /\ books[j].title # S("")

\* C2: for a record that enters enrichment with an item id and an empty
\* ISBN-13, the ownership lookup is dispatched only after the record's
\* catalog lookup has completed.
InfoBeforeLibrary ==
    \A i \in Records :
        NeedsIsbn(Initial(i)) /\ lib[i].st # "none" => Done(info[i])

\* The ownership lookup of such a record is running after its catalog lookup
\* completed without an ISBN-13.
LibraryRunsAfterFailedInfo ==
    \E i \in Records :
        /\ NeedsIsbn(Initial(i)) /\ lib[i].st = "running"
        /\ Done(info[i]) /\ books[i].isbn13 = S("")

\* C3: while the catalog lookup of a record that has only an item id is in
\* flight, the records listed after it can still be dispatched: the loop of
\* create is able to submit the next record's lookups.
SequentialPairDoesNotBlock ==
    \A i \in Records :
        (NeedsIsbn(Initial(i)) /\ "info" \in Unresolved(i) /\ i < NumBooks)
            => ENABLED (SubmitInfoFirst \/ SubmitBoth)

\* The positions of the result set whose isbn equals the record's ISBN-13.
Matches(results, isbn13) ==
    {k \in 1..Len(results) : "isbn" \in DOMAIN results[k] /\ results[k].isbn = isbn13}

\* What the claim demands of record b once its ownership lookup l returned.
LibraryOutcome(b, l) ==
    /\ ~l.raised
    /\ l.failed =>
          b.library_status = "UNKNOWN" /\ b.key = None /\ b.species_key = None
    /\ (~l.failed /\ Matches(l.data, b.isbn13) = {}) =>
          b.library_status = "NOT_EXISTS" /\ b.key = None /\ b.species_key = None
    /\ (~l.failed /\ Matches(l.data, b.isbn13) # {}) =>
          /\ b.library_status = "EXISTS"
          /\ \E k \in Matches(l.data, b.isbn13) :
                /\ b.key = (IF "bookKey" \in DOMAIN l.data[k]
                            THEN l.data[k].bookKey ELSE None)
                /\ b.species_key = (IF "speciesKey" \in DOMAIN l.data[k]
                                    THEN l.data[k].speciesKey ELSE None)

\* A record has a reference key only when its status is EXISTS.
KeysOnlyWhenExists ==
    \A i \in Records :
        (books[i].key # None \/ books[i].species_key # None)
            => books[i].library_status = "EXISTS"

\* C4: update_library_status never raises and, when it returns, has set the
\* record's ownership fields from the response: EXISTS with the keys of an
\* entry whose isbn equals the record's ISBN-13, NOT_EXISTS with no key when
\* there is no such entry, UNKNOWN with no key on any error; and in every
\* state a record has a key only when its status is EXISTS.
LibraryStatusContract ==
    /\ []KeysOnlyWhenExists
    /\ [][\A i \in Records :
             (lib[i].st = "running" /\ lib'[i].st = "done")
                 => LibraryOutcome(books'[i], lib'[i])]_vars

\* One ownership lookup returned EXISTS with both keys of the matching
\* entry, another returned UNKNOWN after a failed request.
LibraryFoundAndFailed ==
    \E i, j \in Records :
        /\ Done(lib[i]) /\ books[i].library_status = "EXISTS"
        /\ books[i].key = I(5) /\ books[i].species_key = I(6)
        /\ Done(lib[j]) /\ lib[j].failed /\ books[j].library_status = "UNKNOWN"

\* The ten descriptive and popularity fields of b are the ones of item.
PopulatedFrom(b, item) ==
    /\ b.title = Get(item.f, "title", S(""))
    /\ b.author = Get(item.f, "author", S(""))
    /\ b.publisher = Get(item.f, "publisher", S(""))
    /\ ToInt(Get(item.f, "priceStandard", I(0))).exc = ""
    /\ b.standard_price = ToInt(Get(item.f, "priceStandard", I(0))).n
    /\ b.publish_date = Get(item.f, "pubDate", S(""))
    /\ Strip(Get(item.f, "description", S(""))).exc = ""
    /\ b.description = Strip(Get(item.f, "description", S(""))).s
    /\ ToFloat(Get(item.ratingInfo, "ratingScore", I(0))).exc = ""
    /\ b.rating_score = ToFloat(Get(item.ratingInfo, "ratingScore", I(0))).n
    /\ ToInt(Get(item.ratingInfo, "ratingCount", I(0))).exc = ""
    /\ b.rating_count = ToInt(Get(item.ratingInfo, "ratingCount", I(0))).n
    /\ b.sales_point = Get(item.f, "salesPoint", I(0))
    /\ b.category = Get(item.f, "categoryName", S(""))

\* No descriptive, popularity or identity field of b differs from a's.
SameCatalogFields(b, a) ==
    /\ b.title = a.title /\ b.author = a.author /\ b.publisher = a.publisher
    /\ b.standard_price = a.standard_price /\ b.publish_date = a.publish_date
    /\ b.description = a.description /\ b.rating_score = a.rating_score
    /\ b.rating_count = a.rating_count /\ b.sales_point = a.sales_point
    /\ b.category = a.category
    /\ b.item_id = a.item_id /\ b.isbn13 = a.isbn13

\* C5: catalog fields are all-or-nothing: after update_book_info returned,
\* either every descriptive and popularity field of the record comes from one
\* response item, or none of them and neither identity field differs from its
\* value before the call (the value the record was constructed with: nothing
\* else writes these fields).
CatalogAllOrNothing ==
    \A i \in Records :
        Done(info[i]) =>
            \/ \E item \in CatalogItems : PopulatedFrom(books[i], item)
            \/ SameCatalogFields(books[i], Initial(i))

\* The record that sheet row `row` was written from.
BookOfRow(row) == books[row.order]

\* C6: within a sheet the rows are in ascending display order and are the
\* records of that sheet name, whatever the lookups did; and no step changes
\* a record's sheet name or display order.
RowsInDisplayOrder ==
    /\ \A i \in Records :
          books[i].sheet_name = rows[i].sheet /\ books[i].order = i
    /\ pc = "done" =>
          \A s \in 1..Len(workbook) :
              LET rs == workbook[s].rows
              IN  /\ \A a, b \in 1..Len(rs) : a < b => rs[a].order < rs[b].order
                  /\ {rs[a].order : a \in 1..Len(rs)}
                        = {i \in Records : rows[i].sheet = workbook[s].name}

\* A sheet holds two rows, of a record whose catalog lookup populated it and
\* of one whose lookups both failed.
SheetWithTwoRows ==
    /\ pc = "done"
    /\ \E s \in 1..Len(workbook) :
          /\ Len(workbook[s].rows) >= 2
          /\ \E a, b \in 1..Len(workbook[s].rows) :
                /\ BookOfRow(workbook[s].rows[a]).title # S("")
                /\ BookOfRow(workbook[s].rows[b]).title = S("")
                /\ lib[workbook[s].rows[b].order].failed

\* The first input row with this sheet name.
FirstRowOf(name) ==
    CHOOSE i \in Records :
        rows[i].sheet = name /\ \A j \in 1..(i - 1) : rows[j].sheet # name

\* C7: the workbook has exactly one sheet per distinct sheet name of the
\* input, in the order in which the names first occur in the input.
SheetsInFirstSeenOrder ==
    pc = "done" =>
        /\ {workbook[k].name : k \in 1..Len(workbook)} = {rows[i].sheet : i \in Records}
        /\ \A a, b \in 1..Len(workbook) :
              a < b => /\ workbook[a].name # workbook[b].name
                       /\ FirstRowOf(workbook[a].name) < FirstRowOf(workbook[b].name)

\* Two sheets were written, "B" before "A", as the input names them.
TwoSheetsInInputOrder ==
    /\ pc = "done" /\ Len(workbook) = 2
    /\ workbook[1].name = "B" /\ workbook[2].name = "A"
    /\ rows[1].sheet = "B"

\* C8: in every state each record has a known identity, a catalog item id or
\* a non-empty ISBN-13.
KnownIdentity ==
    \A i \in Records :
        \/ books[i].item_id.t = "int"
        \/ (books[i].isbn13.t = "str" /\ books[i].isbn13.s # "")

\* C9: the ownership cell is a hyperlink labelled LinkLabel (and rule (a)
\* highlights the row) exactly when the status is EXISTS and both reference
\* keys are present; otherwise it is the plain text "O", "X" or "?" of the
\* status and the row is not highlighted.
OwnershipCellRule ==
    pc = "done" =>
        \A s \in 1..Len(workbook) : \A r \in 1..Len(workbook[s].rows) :
            LET row == workbook[s].rows[r]
                b == BookOfRow(row)
            IN  IF b.library_status = "EXISTS" /\ b.key # None /\ b.species_key # None
                THEN /\ row.ownership.kind = "url"
                     /\ row.ownership.string = LinkLabel
                     /\ HighlightOwned(row)
                ELSE /\ row.ownership.kind = "text"
                     /\ row.ownership.string =
                           (CASE b.library_status = "EXISTS" -> "O"
                              [] b.library_status = "NOT_EXISTS" -> "X"
                              [] OTHER -> "?")
                     /\ ~HighlightOwned(row)

\* The ownership fields of a record.
Ownership(b) == <<b.library_status, b.key, b.species_key>>

\* C10: for a record whose ISBN-13 is known at dispatch, the ownership result
\* does not depend on how the two lookups interleave: it is what
\* update_library_status yields from the response on the record as
\* dispatched, untouched by the catalog lookup.
OwnershipIndependentOfInterleaving ==
    \A i \in Records :
        (~NeedsIsbn(Initial(i)) /\ Done(lib[i])) =>
            Ownership(books[i]) =
                Ownership(update_library_status(Initial(i),
                    [exc |-> IF lib[i].failed THEN "ConnectionError" ELSE "",
                     bookList |-> lib[i].data]).book)

\* C11: an ownership request is only built for a record whose ISBN-13 is
\* non-empty at that moment (the searchKeyword of every request sent is a
\* non-empty string), and a record that started with only an item id and
\* whose ISBN-13 is still empty never has status EXISTS.
LibraryRequestHasIsbn ==
    \A i \in Records :
        /\ lib[i].st \in {"running", "done"} =>
              (lib[i].searchKeyword.t = "str" /\ lib[i].searchKeyword.s # "")
        /\ (NeedsIsbn(Initial(i)) /\ ~Truthy(books[i].isbn13)) =>
              books[i].library_status # "EXISTS"

=============================================================================
